---------------------------- MODULE Spec2Model ----------------------------
(***************************************************************************)
(* Model of the two icon scripts of the repository:                        *)
(*   scripts/generate-app-icon.py  (the generator)                         *)
(*   scripts/make-round-icon.py    (the round script)                      *)
(*                                                                         *)
(* Three specifications share the module:                                  *)
(*   Spec      runs of the two scripts, one after the other, in one        *)
(*             working directory: the files they write, what they print.   *)
(*   SpecPixel the alpha and colour of one pixel of an image produced by   *)
(*             make_icon_round, create_round_notification_icon and         *)
(*             create_notification_icon.                                   *)
(*   SpecGrad  the gradient loop of create_educational_icon, row by row.   *)
(***************************************************************************)
EXTENDS Integers, Sequences, FiniteSets, TLC

VARIABLES
    fs,         \* file system: path -> file content (NoFile when absent)
    assetsDir,  \* whether the directory ./assets exists
    fontOK,     \* whether the DejaVuSans-Bold.ttf system font can be loaded
    pc,         \* position of the running script
    script,     \* "none", "round" or "gen": the script of the current run
    i,          \* loop index into icons_to_create / next save of save_app_icons
    out,        \* messages printed by the current run
    written,    \* paths saved by the current run, in order
    base,       \* generator: the image returned by create_educational_icon
    font,       \* generator: the font create_educational_icon ended up with
    returned,   \* round script: the image the last make_icon_round returned
    fsAtStart,  \* history: fs when the current run started
    dirAtStart, \* history: assetsDir when the current run started
    lastOK,     \* history: script and inputs of the previous successful run
    psize, px, py, srcPix, pkind, outPix, pstage,   \* SpecPixel
    gy, gcolor, gprev                               \* SpecGrad

mainVars == <<fs, assetsDir, fontOK, pc, script, i, out, written, base, font,
              returned, fsAtStart, dirAtStart, lastOK>>
pixVars  == <<psize, px, py, srcPix, pkind, outPix, pstage>>
gradVars == <<gy, gcolor, gprev>>
vars     == <<mainVars, pixVars, gradVars>>

-----------------------------------------------------------------------------
(* Bounds of the model *)

\* a source-image side length that is none of the sizes the scripts use
OddDim == 7

-----------------------------------------------------------------------------
(* Paths *)

SrcPath == "/home/king/Downloads/edp.png"

\* make-round-icon.py, icons_to_create: (output_path, size)
icons_to_create ==
    << <<"assets/icon.png", 1024>>,
       <<"assets/adaptive-icon.png", 1024>>,
       <<"assets/splash-icon.png", 1024>>,
       <<"assets/favicon.png", 32>>,
       <<"assets/favicon-16x16.png", 16>>,
       <<"assets/favicon-32x32.png", 32>>,
       <<"assets/favicon-48x48.png", 48>>,
       <<"assets/favicon-64x64.png", 64>> >>

RoundNotificationPath == "assets/notification-icon.png"

\* generate-app-icon.py, save_app_icons: os.path.join(assets_dir, name) for the
\* five saves, in the order of the code; assets_dir is <cwd>/assets, the same
\* directory the round script names relative to the working directory
GenPaths ==
    << "assets/icon.png",
       "assets/adaptive-icon.png",
       "assets/splash-icon.png",
       "assets/notification-icon.png",
       "assets/favicon.png" >>

Range(s) == {s[k] : k \in 1..Len(s)}

AssetPaths == {icons_to_create[k][1] : k \in 1..Len(icons_to_create)}
                  \cup {RoundNotificationPath} \cup Range(GenPaths)
Paths == AssetPaths \cup {SrcPath}

-----------------------------------------------------------------------------
(* Images and PNG files *)

\* An image: its size, its mode, where its colour channels come from and what
\* its alpha channel holds.
\*   origin   "src" (pixels of the source file), "edu-dejavu"/"edu-default"
\*            (the educational icon, drawn with either font), "book", "bars"
\*   ow,oh,omode  size and mode of the raster the colours were first read from
\*   filter   resampling applied: "none", "lanczos" or "nearest"
\*   alpha    "none" (no alpha band), "own" (the alpha the raster came with or
\*            was drawn with), "mask" (the circular mask put by putalpha)
NoImage == [w |-> 0, h |-> 0, mode |-> "none", origin |-> "none",
            ow |-> 0, oh |-> 0, omode |-> "none", filter |-> "none",
            alpha |-> "none"]
NoFile == NoImage

HasAlpha(mode) == mode \in {"RGBA", "LA"}

\* Image.new(mode, (w, h), ...) followed by drawing calls named by origin
NewImage(mode, w, h, origin) ==
    [w |-> w, h |-> h, mode |-> mode, origin |-> origin,
     ow |-> w, oh |-> h, omode |-> mode, filter |-> "none",
     alpha |-> IF HasAlpha(mode) THEN "own" ELSE "none"]

\* Image.resize((w, h), Image.Resampling.LANCZOS): a new image of the requested
\* size and the same mode; the library resamples modes "1" and "P" with NEAREST
Resize(img, w, h) ==
    [img EXCEPT !.w = w, !.h = h,
                !.filter = IF img.mode \in {"1", "P"} THEN "nearest" ELSE "lanczos"]

\* Image.convert('RGBA'): same size, mode RGBA; an image without an alpha band
\* (or palette transparency) becomes fully opaque, which is still its "own"
Convert(img, mode) ==
    [img EXCEPT !.mode = mode,
                !.alpha = IF HasAlpha(mode) THEN "own" ELSE "none"]

\* round_icon.paste(icon, (0, 0)) into Image.new('RGBA', (size, size)): the
\* canvas keeps its own size and mode and takes the pasted pixels (all four
\* bands, no paste mask) wherever the pasted image covers it
Paste(canvas, img) ==
    [canvas EXCEPT !.origin = img.origin, !.ow = img.ow, !.oh = img.oh,
                   !.omode = img.omode, !.filter = img.filter,
                   !.alpha = img.alpha]

\* Image.putalpha(mask): the alpha band is replaced by the mask
PutAlpha(img) == [img EXCEPT !.alpha = "mask"]

\* Image.save(path, 'PNG', quality=100): PNG is lossless for these modes and
\* ignores quality; the file holds the raster as it is
Save(img) == img

\* Image.open(path)
Open(file) == file

-----------------------------------------------------------------------------
(* make-round-icon.py *)

\* make_icon_round with the canvas made as large as the opened icon instead
\* of size x size
make_icon_round_IconSizedCanvas(file, size) ==
    LET opened    == Open(file)
        resized   == IF <<opened.w, opened.h>> # <<size, size>>
                     THEN Resize(opened, size, size) ELSE opened
        converted == IF resized.mode # "RGBA"
                     THEN Convert(resized, "RGBA") ELSE resized
        canvas    == NewImage("RGBA", opened.w, opened.h, "blank")
    IN  PutAlpha(Paste(canvas, converted))

\* make_icon_round(input_path, output_path, size): the image it saves and
\* returns, given the content of the file at input_path
make_icon_round(file, size) ==
    LET opened    == Open(file)
        resized   == IF <<opened.w, opened.h>> # <<size, size>>
                     THEN Resize(opened, size, size) ELSE opened
        converted == IF resized.mode # "RGBA"
                     THEN Convert(resized, "RGBA") ELSE resized
        canvas    == NewImage("RGBA", size, size, "blank")
    IN  PutAlpha(Paste(canvas, converted))

\* icons_to_create with favicon-32x32.png listed twice and favicon.png missing
RoundTargetNoFavicon(k) ==
    IF k = 4 THEN "assets/favicon-32x32.png" ELSE icons_to_create[k][1]

\* the output path of the k-th call of make_icon_round in create_all_round_icons
RoundTarget(k) == icons_to_create[k][1]

\* the size passed to the k-th call of make_icon_round
RoundSize(k) == icons_to_create[k][2]

\* create_round_notification_icon: a 256 x 256 RGBA canvas, a white circle and
\* three bars drawn on it, then putalpha(create_round_mask(256))
NotificationSize == 256
create_round_notification_icon ==
    PutAlpha(NewImage("RGBA", NotificationSize, NotificationSize, "bars"))

-----------------------------------------------------------------------------
(* generate-app-icon.py *)

IconSize == 1024
FaviconSize == 32

\* ImageFont.truetype(".../DejaVuSans-Bold.ttf", size // 20): raises when the
\* font file cannot be loaded
truetype(ok) == IF ok THEN "DejaVuSans-Bold" ELSE "raise"

\* the font loaded without the try/except
LoadFontNoFallback(ok) == truetype(ok)

\* the try/except around ImageFont.truetype: any exception selects
\* ImageFont.load_default()
LoadFont(ok) == IF truetype(ok) = "raise" THEN "default" ELSE truetype(ok)

\* create_educational_icon: an RGB canvas of 1024 x 1024, the gradient, the
\* overlay (convert to RGBA, alpha_composite, convert back to RGB), the book,
\* the dots and the "EDU" text with its shadow in the loaded font
create_educational_icon(f) ==
    LET canvas == NewImage("RGB", IconSize, IconSize, "gradient")
        merged == Convert(Convert(canvas, "RGBA"), "RGB")
    IN  [merged EXCEPT !.origin = IF f = "DejaVuSans-Bold"
                                  THEN "edu-dejavu" ELSE "edu-default"]

\* create_notification_icon: a transparent 256 x 256 RGBA canvas with a white
\* book drawn on it
create_notification_icon ==
    NewImage("RGBA", NotificationSize, NotificationSize, "book")

\* save_app_icons: the image saved by the k-th save
GenPayload(k, b) ==
    CASE k \in {1, 2, 3} -> b
      [] k = 4 -> create_notification_icon
      [] k = 5 -> Resize(b, FaviconSize, FaviconSize)

\* save_app_icons with the favicon saved before the notification icon
GenTargetSwapped(k) ==
    CASE k = 4 -> GenPaths[5] [] k = 5 -> GenPaths[4] [] OTHER -> GenPaths[k]

\* save_app_icons: the path of the k-th save
GenTarget(k) == GenPaths[k]

-----------------------------------------------------------------------------
(* The inputs of a run *)

SrcDims == {OddDim, 32, 1024}
SrcModes == {"P", "RGB", "RGBA"}

\* the PNG files that may sit at the source path
SrcImages ==
    {NewImage(m, w, h, "src") : m \in SrcModes, w \in SrcDims, h \in SrcDims}

NoRun == [script |-> "none", src |-> NoFile, font |-> FALSE]

\* the run that just ended ran to its last statement and wrote its files
Successful ==
    /\ pc = "done"
    /\ "notfound" \notin Range(out)

-----------------------------------------------------------------------------
(* Spec: runs of the two scripts *)

PixIdle == /\ psize = 0 /\ px = 0 /\ py = 0 /\ srcPix = <<0, 0, 0, 0>>
           /\ pkind = "none" /\ outPix = <<0, 0, 0, 0>> /\ pstage = "off"
GradIdle == /\ gy = 0 /\ gcolor = <<0, 0, 0>> /\ gprev = <<0, 0, 0>>

Init ==
    /\ fs = [p \in Paths |-> NoFile]
    /\ assetsDir \in BOOLEAN
    /\ fontOK \in BOOLEAN
    /\ pc = "idle"
    /\ script = "none"
    /\ i = 1
    /\ out = <<>>
    /\ written = <<>>
    /\ base = NoImage
    /\ font = "none"
    /\ returned = NoImage
    /\ fsAtStart = fs
    /\ dirAtStart = assetsDir
    /\ lastOK = NoRun
    /\ PixIdle
    /\ GradIdle

Ended == pc \in {"idle", "done", "crashed"}

ThisRun == [script |-> script, src |-> fs[SrcPath], font |-> fontOK]

\* python3 scripts/make-round-icon.py, with src at the source path (NoFile: no
\* file there); __main__ prints its first message
StartRound(src) ==
    /\ Ended
    /\ lastOK' = IF Successful THEN ThisRun ELSE lastOK
    /\ fs' = [fs EXCEPT ![SrcPath] = src]
    /\ fsAtStart' = fs'
    /\ dirAtStart' = assetsDir
    /\ script' = "round"
    /\ pc' = "r_main"
    /\ i' = 1
    /\ out' = <<"start">>
    /\ written' = <<>>
    /\ base' = NoImage
    /\ font' = "none"
    /\ returned' = NoImage
    /\ UNCHANGED <<assetsDir, fontOK>>

\* the os.path.exists check without its return
RoundCheckSourceNoReturn ==
    /\ pc = "r_main"
    /\ out' = IF fs[SrcPath] = NoFile THEN Append(out, "notfound") ELSE out
    /\ pc' = "r_loop"
    /\ UNCHANGED <<fs, assetsDir, fontOK, script, i, written, base, font,
                   returned, fsAtStart, dirAtStart, lastOK>>

\* create_all_round_icons, lines 44-48: the os.path.exists check
RoundCheckSource ==
    /\ pc = "r_main"
    /\ IF fs[SrcPath] = NoFile
       THEN /\ out' = Append(out, "notfound")
            /\ pc' = "r_final"
       ELSE /\ out' = out
            /\ pc' = "r_loop"
    /\ UNCHANGED <<fs, assetsDir, fontOK, script, i, written, base, font,
                   returned, fsAtStart, dirAtStart, lastOK>>

\* one iteration of the loop of create_all_round_icons: a call of
\* make_icon_round; save raises (and the script dies) when ./assets is missing
RoundMakeIcon ==
    /\ pc = "r_loop"
    /\ LET img == make_icon_round(fs[SrcPath], RoundSize(i))
       IN  IF ~assetsDir
           THEN /\ pc' = "crashed"
                /\ UNCHANGED <<fs, written, out, returned, i>>
           ELSE /\ fs' = [fs EXCEPT ![RoundTarget(i)] = Save(img)]
                /\ written' = Append(written, RoundTarget(i))
                /\ out' = Append(out, "created")
                /\ returned' = img
                /\ i' = i + 1
                /\ pc' = IF i = Len(icons_to_create) THEN "r_notif" ELSE "r_loop"
    /\ UNCHANGED <<assetsDir, fontOK, script, base, font, fsAtStart,
                   dirAtStart, lastOK>>

\* create_round_notification_icon, called last by create_all_round_icons
RoundNotification ==
    /\ pc = "r_notif"
    /\ IF ~assetsDir
       THEN /\ pc' = "crashed"
            /\ UNCHANGED <<fs, written, out>>
       ELSE /\ fs' = [fs EXCEPT ![RoundNotificationPath] =
                                    Save(create_round_notification_icon)]
            /\ written' = Append(written, RoundNotificationPath)
            /\ out' = Append(out, "created")
            /\ pc' = "r_final"
    /\ UNCHANGED <<assetsDir, fontOK, script, i, base, font, returned,
                   fsAtStart, dirAtStart, lastOK>>

\* __main__, lines 107-108: the two closing messages
RoundFinal ==
    /\ pc = "r_final"
    /\ out' = Append(Append(out, "final"), "refresh")
    /\ pc' = "done"
    /\ UNCHANGED <<fs, assetsDir, fontOK, script, i, written, base, font,
                   returned, fsAtStart, dirAtStart, lastOK>>

\* python3 scripts/generate-app-icon.py, with the system font loadable or not
StartGen(f) ==
    /\ Ended
    /\ lastOK' = IF Successful THEN ThisRun ELSE lastOK
    /\ fontOK' = f
    /\ fsAtStart' = fs
    /\ dirAtStart' = assetsDir
    /\ script' = "gen"
    /\ pc' = "g_main"
    /\ i' = 1
    /\ out' = <<"start">>
    /\ written' = <<>>
    /\ base' = NoImage
    /\ font' = "none"
    /\ returned' = NoImage
    /\ UNCHANGED <<fs, assetsDir>>

\* icon = create_educational_icon()
GenCreateIcon ==
    /\ pc = "g_main"
    /\ font' = LoadFont(fontOK)
    /\ IF font' = "raise"
       THEN /\ pc' = "crashed"
            /\ base' = base
       ELSE /\ pc' = "g_save"
            /\ base' = create_educational_icon(font')
    /\ UNCHANGED <<fs, assetsDir, fontOK, script, i, out, written, returned,
                   fsAtStart, dirAtStart, lastOK>>

\* save_app_icons with the favicon made by shrinking the base image in place
GenSaveInPlace ==
    /\ pc = "g_save"
    /\ assetsDir' = TRUE
    /\ base' = IF i = 5 THEN Resize(base, FaviconSize, FaviconSize) ELSE base
    /\ fs' = [fs EXCEPT ![GenTarget(i)] = Save(base')]
    /\ written' = Append(written, GenTarget(i))
    /\ out' = Append(out, "created")
    /\ i' = i + 1
    /\ pc' = IF i = Len(GenPaths) THEN "g_final" ELSE "g_save"
    /\ UNCHANGED <<fontOK, script, font, returned, fsAtStart,
                   dirAtStart, lastOK>>

\* save_app_icons: os.makedirs(assets_dir, exist_ok=True) before the first
\* save, then one save and its message
GenSave ==
    /\ pc = "g_save"
    /\ assetsDir' = TRUE
    /\ fs' = [fs EXCEPT ![GenTarget(i)] = Save(GenPayload(i, base))]
    /\ written' = Append(written, GenTarget(i))
    /\ out' = Append(out, "created")
    /\ i' = i + 1
    /\ pc' = IF i = Len(GenPaths) THEN "g_final" ELSE "g_save"
    /\ UNCHANGED <<fontOK, script, base, font, returned, fsAtStart,
                   dirAtStart, lastOK>>

\* __main__, lines 182-184: the closing messages
GenFinal ==
    /\ pc = "g_final"
    /\ out' = Append(out, "final")
    /\ pc' = "done"
    /\ UNCHANGED <<fs, assetsDir, fontOK, script, i, written, base, font,
                   returned, fsAtStart, dirAtStart, lastOK>>

Next ==
    \/ \E src \in SrcImages \cup {NoFile} : StartRound(src) /\ UNCHANGED <<pixVars, gradVars>>
    \/ RoundCheckSource /\ UNCHANGED <<pixVars, gradVars>>
    \/ RoundMakeIcon /\ UNCHANGED <<pixVars, gradVars>>
    \/ RoundNotification /\ UNCHANGED <<pixVars, gradVars>>
    \/ RoundFinal /\ UNCHANGED <<pixVars, gradVars>>
    \/ \E f \in BOOLEAN : StartGen(f) /\ UNCHANGED <<pixVars, gradVars>>
    \/ GenCreateIcon /\ UNCHANGED <<pixVars, gradVars>>
    \/ GenSave /\ UNCHANGED <<pixVars, gradVars>>
    \/ GenFinal /\ UNCHANGED <<pixVars, gradVars>>

Spec == Init /\ [][Next]_vars

-----------------------------------------------------------------------------
(* Pixels: what the drawing calls of the scripts do to one pixel *)

\* largest image size of which SpecPixel visits every pixel, besides the sizes
\* the round script asks for
MaxSize == 12

Abs(n) == IF n < 0 THEN 0 - n ELSE n

\* ImageDraw.ellipse as the imaging library rasterises a circle: a walk along
\* one quarter of the circle of diameter d = x1 - x0 = y1 - y0, in doubled
\* coordinates relative to the centre, from (d, d % 2) to (d % 2, d); each
\* step goes to the one of (cx, cy+2), (cx-2, cy+2), (cx-2, cy) that deviates
\* least from the circle. The library's deviation a^2 y^2 + b^2 x^2 - a^2 b^2
\* is, for a = b = d, d^2 times the one below; the comparisons are the same.
EllipseDelta(d, x, y) == Abs(y * y + x * x - d * d)

\* One step of the walk (quarter_next). The state is <<cx, cy, rows>>; rows
\* lists, for the rows cy = d % 2, d % 2 + 2, ... reached so far, the first
\* (largest) cx the walk visits in that row. The walk rests at (d % 2, d).
QuarterNext(d, st) ==
    LET cx == st[1]
        cy == st[2]
    IN  IF cx = d % 2 /\ cy = d
        THEN st
        ELSE LET d1 == EllipseDelta(d, cx, cy + 2)
                 d2 == EllipseDelta(d, cx - 2, cy + 2)
                 d3 == EllipseDelta(d, cx - 2, cy)
                 diag  == cx > 1 /\ d1 > d2
                 best  == IF diag THEN d2 ELSE d1
                 horiz == cx > 1 /\ best > d3
                 nx == IF diag \/ horiz THEN cx - 2 ELSE cx
                 ny == IF horiz THEN cy ELSE cy + 2
             IN  <<nx, ny, IF ny > cy THEN Append(st[3], nx) ELSE st[3]>>

\* n steps of the walk; n is halved, and the first half is evaluated before
\* the second starts, to keep the evaluation shallow
RECURSIVE QuarterWalk(_, _, _)
QuarterWalk(d, st, n) ==
    IF n <= 1
    THEN QuarterNext(d, st)
    ELSE LET half == QuarterWalk(d, st, n \div 2)
         IN  IF half[2] <= d THEN QuarterWalk(d, half, n - n \div 2) ELSE half

\* the whole walk: every step lowers cx or raises cy by 2, so it rests after
\* at most d steps
QuarterRows(d) == QuarterWalk(d, <<d, d % 2, <<d>>>>, d + 1)[3]

\* the diameters of the circles the scripts draw
Diameters == (1..MaxSize) \cup {16, 24, 32, 48, 64, 172, 256}

\* the walks, computed once
CircleTable == {<<d, QuarterRows(d)>> : d \in Diameters}

CircleRows(d) == (CHOOSE t \in CircleTable : t[1] = d)[2]

\* whether a filled draw.ellipse((x0, y0, x0 + d, y0 + d)) sets pixel (x, y):
\* row Y (doubled, relative to the centre) is filled for the doubled columns
\* -r .. r, and maps to pixel row y0 + (Y + d) / 2
EllipseCovers(x0, y0, d, x, y) ==
    LET X == 2 * (x - x0) - d
        Y == 2 * (y - y0) - d
    IN  /\ Abs(Y) <= d
        /\ Abs(X) <= CircleRows(d)[(Abs(Y) - (d % 2)) \div 2 + 1]

\* draw.rectangle([x0, y0, x1, y1]): both corners included
RectCovers(x0, y0, x1, y1, x, y) ==
    x0 <= x /\ x <= x1 /\ y0 <= y /\ y <= y1

\* draw.rounded_rectangle([x0, y0, x1, y1], radius=r): the middle rectangle,
\* the left and right strips between the corners, and the four corner
\* quarters of circles of diameter 2r
RoundedRectCovers(x0, y0, x1, y1, r, x, y) ==
    \/ RectCovers(x0 + r + 1, y0, x1 - r - 1, y1, x, y)
    \/ RectCovers(x0, y0 + r + 1, x0 + r, y1 - r - 1, x, y)
    \/ RectCovers(x1 - r, y0 + r + 1, x1, y1 - r - 1, x, y)
    \/ RectCovers(x0, y0, x0 + r, y0 + r, x, y)
         /\ EllipseCovers(x0, y0, 2 * r, x, y)
    \/ RectCovers(x1 - r, y0, x1, y0 + r, x, y)
         /\ EllipseCovers(x1 - 2 * r, y0, 2 * r, x, y)
    \/ RectCovers(x1 - r, y1 - r, x1, y1, x, y)
         /\ EllipseCovers(x1 - 2 * r, y1 - 2 * r, 2 * r, x, y)
    \/ RectCovers(x0, y1 - r, x0 + r, y1, x, y)
         /\ EllipseCovers(x0, y1 - 2 * r, 2 * r, x, y)

Transparent == <<0, 0, 0, 0>>
White == <<255, 255, 255, 255>>
Cyan == <<0, 245, 255, 255>>      \* '#00f5ff'

\* a drawing call with an opaque fill: covered pixels take the fill colour,
\* alpha included
DrawPix(pix, covered, colour) == IF covered THEN colour ELSE pix

\* create_round_mask(size) at pixel (x, y): an 'L' canvas of zeros with
\* draw.ellipse((0, 0, size, size), fill=255), clipped to the canvas
create_round_mask(size, x, y) ==
    IF EllipseCovers(0, 0, size, x, y) THEN 255 ELSE 0

\* Image.putalpha(mask) at one pixel: the alpha band takes the mask's value
PutAlphaPix(pix, a) == <<pix[1], pix[2], pix[3], a>>

\* make_icon_round, lines 28-34, at pixel (x, y): the transparent canvas, the
\* paste of the (resized, converted) icon's pixel, all four bands, then
\* putalpha(create_round_mask(size))
RoundIconPix(size, x, y, iconPix) ==
    LET pasted == DrawPix(Transparent, TRUE, iconPix)
    IN  PutAlphaPix(pasted, create_round_mask(size, x, y))

\* create_round_notification_icon, the three bars: (x, y, width, height)
Bars(size) ==
    LET c  == size \div 2
        bw == size \div 20
        sp == bw + 5
    IN  << <<c - sp, c + bw, bw, size \div 8>>,
           <<c, c - bw, bw, size \div 6>>,
           <<c + sp, c - size \div 10, bw, size \div 5>> >>

BarCovers(size, x, y) ==
    \E k \in 1..3 :
        LET bar == Bars(size)[k]
        IN  RectCovers(bar[1], bar[2], bar[1] + bar[3], bar[2] + bar[4], x, y)

\* create_round_notification_icon: the white circle inside the margin
CircleCovers(size, x, y) ==
    LET margin == size \div 6
    IN  EllipseCovers(margin, margin, size - 2 * margin, x, y)

\* create_round_notification_icon at pixel (x, y)
RoundNotificationPix(size, x, y) ==
    LET circle == DrawPix(Transparent, CircleCovers(size, x, y), White)
        bars   == DrawPix(circle, BarCovers(size, x, y), Cyan)
    IN  PutAlphaPix(bars, create_round_mask(size, x, y))

\* create_notification_icon: the book and its spine
BookCovers(size, x, y) ==
    LET c  == size \div 2
        bw == size \div 2
        bh == size \div 3
        bl == c - bw \div 2
        bt == c - bh \div 2
    IN  RoundedRectCovers(bl, bt, bl + bw, bt + bh, size \div 20, x, y)

SpineCovers(size, x, y) ==
    LET c  == size \div 2
        bw == size \div 2
        bh == size \div 3
        bl == c - bw \div 2
        bt == c - bh \div 2
    IN  RectCovers(bl + bw \div 3, bt, bl + bw \div 3 + size \div 32, bt + bh, x, y)

\* create_notification_icon at pixel (x, y)
BookNotificationPix(size, x, y) ==
    LET book == DrawPix(Transparent, BookCovers(size, x, y), White)
    IN  DrawPix(book, SpineCovers(size, x, y), White)

-----------------------------------------------------------------------------
(* SpecPixel: one pixel of one produced image *)

PixSizes == (1..MaxSize) \cup {16, 32, 48, 64}

\* the pixel of the icon that make_icon_round pastes: any colour of a small
\* palette, transparent, half transparent or opaque
IconPixels == {<<c, c, 255 - c, a>> : c \in {0, 200}, a \in {0, 128, 255}}

MainIdle ==
    /\ fs = [p \in Paths |-> NoFile] /\ assetsDir = FALSE /\ fontOK = FALSE
    /\ pc = "idle" /\ script = "none" /\ i = 1 /\ out = <<>> /\ written = <<>>
    /\ base = NoImage /\ font = "none" /\ returned = NoImage
    /\ fsAtStart = fs /\ dirAtStart = FALSE /\ lastOK = NoRun

InitPixel ==
    /\ MainIdle
    /\ GradIdle
    /\ pkind \in {"icon", "roundnotif", "booknotif"}
    /\ psize \in IF pkind = "icon" THEN PixSizes ELSE {NotificationSize}
    /\ px \in 0..(psize - 1)
    /\ py \in 0..(psize - 1)
    /\ srcPix \in IF pkind = "icon" THEN IconPixels ELSE {Transparent}
    /\ outPix = Transparent
    /\ pstage = "in"

PixMakeIconRound ==
    /\ pstage = "in" /\ pkind = "icon"
    /\ outPix' = RoundIconPix(psize, px, py, srcPix)
    /\ pstage' = "out"
    /\ UNCHANGED <<psize, px, py, srcPix, pkind>>

PixRoundNotification ==
    /\ pstage = "in" /\ pkind = "roundnotif"
    /\ outPix' = RoundNotificationPix(psize, px, py)
    /\ pstage' = "out"
    /\ UNCHANGED <<psize, px, py, srcPix, pkind>>

PixBookNotification ==
    /\ pstage = "in" /\ pkind = "booknotif"
    /\ outPix' = BookNotificationPix(psize, px, py)
    /\ pstage' = "out"
    /\ UNCHANGED <<psize, px, py, srcPix, pkind>>

NextPixel ==
    \/ PixMakeIconRound /\ UNCHANGED <<mainVars, gradVars>>
    \/ PixRoundNotification /\ UNCHANGED <<mainVars, gradVars>>
    \/ PixBookNotification /\ UNCHANGED <<mainVars, gradVars>>

SpecPixel == InitPixel /\ [][NextPixel]_vars

-----------------------------------------------------------------------------
(* SpecGrad: the gradient loop of create_educational_icon *)

\* int(p / q) for q > 0: Python's int() of a float truncates towards zero.
\* With size = 1024, a power of two, every quotient of the loop is exact in
\* binary floating point, so the float is the rational p / q.
IntOfQuotient(p, q) == IF p >= 0 THEN p \div q ELSE 0 - ((0 - p) \div q)

\* the colour of row y with the blue channel falling three times as fast
GradientColorSteep(y, size) ==
    << IntOfQuotient(0 * size + 10 * y, size),
       IntOfQuotient(245 * size - 50 * y, size),
       IntOfQuotient(255 * size - 300 * y, size) >>

\* lines 22-25: the colour of row y
GradientColor(y, size) ==
    << IntOfQuotient(0 * size + 10 * y, size),
       IntOfQuotient(245 * size - 50 * y, size),
       IntOfQuotient(255 * size - 100 * y, size) >>

InitGrad ==
    /\ MainIdle
    /\ PixIdle
    /\ gy = 0
    /\ gcolor = <<0, 0, 0>>
    /\ gprev = <<0, 0, 0>>

\* one iteration of "for y in range(size)": gy counts the rows drawn
GradRow ==
    /\ gy < IconSize
    /\ gcolor' = GradientColor(gy, IconSize)
    /\ gprev' = gcolor
    /\ gy' = gy + 1

NextGrad == GradRow /\ UNCHANGED <<mainVars, pixVars>>

SpecGrad == InitGrad /\ [][NextGrad]_vars

-----------------------------------------------------------------------------
(* Properties *)

IsPrefix(s, t) == Len(s) <= Len(t) /\ \A k \in 1..Len(s) : s[k] = t[k]

\* the files the round script is said to write, in order
RoundOrder ==
    << "assets/icon.png", "assets/adaptive-icon.png", "assets/splash-icon.png",
       "assets/favicon.png", "assets/favicon-16x16.png",
       "assets/favicon-32x32.png", "assets/favicon-48x48.png",
       "assets/favicon-64x64.png", "assets/notification-icon.png" >>

\* the files the generator is said to write, in order
GenOrder ==
    << "assets/icon.png", "assets/adaptive-icon.png", "assets/splash-icon.png",
       "assets/notification-icon.png", "assets/favicon.png" >>

\* the five files both scripts write
SharedFiles ==
    { "assets/icon.png", "assets/adaptive-icon.png", "assets/splash-icon.png",
      "assets/favicon.png", "assets/notification-icon.png" }

\* the four files only the round script writes
FaviconVariants ==
    { "assets/favicon-16x16.png", "assets/favicon-32x32.png",
      "assets/favicon-48x48.png", "assets/favicon-64x64.png" }

\* C1: in a run of the round script that finds no file at the source path,
\* the not-found message is printed and the function returns at once: the
\* run never enters the loop, saves nothing, and every file and the assets
\* directory are as they were when the run started.
C1_MissingSourceAborts ==
    (script = "round" /\ fs[SrcPath] = NoFile) =>
        /\ pc \in {"r_main", "r_final", "done"}
        /\ pc # "r_main" => "notfound" \in Range(out)
        /\ written = <<>>
        /\ "created" \notin Range(out)
        /\ fs = fsAtStart
        /\ assetsDir = dirAtStart

\* a run of the round script without a source file has ended, in a directory
\* that already held icons
C1_Witness ==
    /\ script = "round" /\ pc = "done" /\ fs[SrcPath] = NoFile
    /\ "notfound" \in Range(out)
    /\ fs["assets/icon.png"] # NoFile

\* the sizes the claim lists for the eight targets of create_all_round_icons
ListedSizes == <<1024, 1024, 1024, 32, 16, 32, 48, 64>>

\* C2: whatever the source image's width, height and mode, and whatever the
\* requested size, the image make_icon_round saves and returns is size x size
\* in mode RGBA; each of the eight targets of create_all_round_icons holds an
\* image of its listed size; the generator's icon, adaptive icon and splash
\* icon are 1024 x 1024, its notification icon 256 x 256, its favicon 32 x 32.
C2_ExactDimensions ==
    /\ (script = "round" /\ fs[SrcPath] # NoFile) =>
          /\ \A s \in PixSizes \cup {1024} :
                LET img == make_icon_round(fs[SrcPath], s)
                IN  img.w = s /\ img.h = s /\ img.mode = "RGBA"
          /\ \A k \in 1..Len(written) :
                k <= Len(ListedSizes) =>
                   /\ fs[RoundOrder[k]].w = ListedSizes[k]
                   /\ fs[RoundOrder[k]].h = ListedSizes[k]
                   /\ fs[RoundOrder[k]].mode = "RGBA"
          /\ returned # NoImage =>
                /\ returned = fs[RoundOrder[i - 1]]
                /\ returned.w = ListedSizes[i - 1]
                /\ returned.h = ListedSizes[i - 1]
    /\ script = "gen" =>
          \A k \in 1..Len(written) :
             LET f == fs[GenOrder[k]]
                 n == CASE k \in {1, 2, 3} -> 1024 [] k = 4 -> 256 [] k = 5 -> 32
             IN  f.w = n /\ f.h = n

\* the round script has written all its files from a source that is not square
C2_Witness ==
    /\ script = "round" /\ pc = "done" /\ Len(written) = 9
    /\ fs[SrcPath].w # fs[SrcPath].h
    /\ fs["assets/favicon-48x48.png"].w = 48

\* C4: a run saves only files of the fixed list of its script, in the order
\* of the list, all of them in ./assets and never the source path; a file the
\* run has not saved is as it was when the run started; a successful run
\* of the generator saves exactly its five files and a successful run of the
\* round script exactly its nine, notification-icon.png last.
C4_FixedOutputs ==
    LET order == IF script = "gen" THEN GenOrder ELSE RoundOrder
    IN  /\ IsPrefix(written, order)
        /\ SrcPath \notin Range(written)
        /\ \A p \in Paths \ Range(written) : fs[p] = fsAtStart[p]
        /\ \A p \in Range(written) : fs[p] # NoFile
        /\ Successful => written = order

\* a successful run of the round script has ended
C4_Witness ==
    /\ Successful /\ script = "round"
    /\ Len(written) = 9
    /\ written[9] = "assets/notification-icon.png"

\* C6: in a run of the generator, every saved copy of the base image holds
\* the base image as create_educational_icon returned it and as it still is
\* (so icon.png, adaptive-icon.png and splash-icon.png are identical), and
\* favicon.png holds it resized to 32 x 32; in a run of the round script,
\* every output comes from the raster of the one source file, and outputs of
\* the same requested size are identical.
C6_CopiesOfOneRaster ==
    /\ script = "gen" =>
          /\ \A k \in 1..Len(written) :
                /\ k \in {1, 2, 3} => fs[GenOrder[k]] = base
                /\ k = 5 => fs[GenOrder[k]] = [base EXCEPT !.w = 32, !.h = 32,
                                                           !.filter = "lanczos"]
          /\ \A j, k \in 1..Len(written) :
                (j \in {1, 2, 3} /\ k \in {1, 2, 3}) =>
                    fs[GenOrder[j]] = fs[GenOrder[k]]
          /\ pc \in {"g_save", "g_final", "done"} =>
                /\ base.w = 1024 /\ base.h = 1024 /\ base.filter = "none"
                /\ base.origin \in {"edu-dejavu", "edu-default"}
    /\ script = "round" =>
          /\ \A k \in 1..Len(written) :
                k <= 8 =>
                   /\ fs[RoundOrder[k]].origin = "src"
                   /\ fs[RoundOrder[k]].ow = fs[SrcPath].w
                   /\ fs[RoundOrder[k]].oh = fs[SrcPath].h
                   /\ fs[RoundOrder[k]].omode = fs[SrcPath].mode
          /\ \A j, k \in 1..Len(written) :
                (j <= 8 /\ k <= 8 /\ ListedSizes[j] = ListedSizes[k]) =>
                    fs[RoundOrder[j]] = fs[RoundOrder[k]]

\* the generator has ended after a successful run of the round script
C6_Witness ==
    /\ Successful /\ script = "gen" /\ lastOK.script = "round"
    /\ fs["assets/favicon.png"].w = 32
    /\ fs["assets/icon.png"] = base

\* C7: in a run of the generator the font is the system font when it loads
\* and the default font when it does not; the run never dies in
\* create_educational_icon, which returns the image with the text drawn in
\* whichever font was loaded, and the saves and messages that follow are
\* the same five saves, in the same order, with or without the system font.
C7_FontFallback ==
    script = "gen" =>
        /\ pc # "crashed"
        /\ pc # "g_main" =>
              /\ font = IF fontOK THEN "DejaVuSans-Bold" ELSE "default"
              /\ base # NoImage
              /\ base.origin = IF fontOK THEN "edu-dejavu" ELSE "edu-default"
        /\ IsPrefix(written, GenOrder)
        /\ pc = "done" =>
              /\ written = GenOrder
              /\ out = <<"start", "created", "created", "created", "created",
                         "created", "final">>

\* the generator has ended without the system font
C7_Witness ==
    /\ script = "gen" /\ pc = "done" /\ ~fontOK
    /\ font = "default"
    /\ Len(written) = 5

\* C8: in a run of the round script the final message is printed only after
\* all nine files were written in that run.
C8_FinalMessageOnlyAfterAllWritten ==
    (script = "round" /\ "final" \in Range(out)) => written = RoundOrder

\* C10: when a successful run has ended, each of the five shared files was
\* written by that run; after the round script all five carry the round
\* mask and after the generator none does; the generator leaves the four
\* favicon-NxN files as they were; and a run of the same script with the
\* same input as the previous successful run leaves every file as it was.
C10_LastRunDecides ==
    /\ Successful =>
          /\ \A f \in SharedFiles : f \in Range(written)
          /\ script = "round" => \A f \in SharedFiles : fs[f].alpha = "mask"
          /\ script = "gen" => \A f \in SharedFiles : fs[f].alpha # "mask"
          /\ (lastOK.script = script
                /\ (script = "round" => lastOK.src = fs[SrcPath])
                /\ (script = "gen" => lastOK.font = fontOK))
              => fs = fsAtStart
    /\ script = "gen" => \A f \in FaviconVariants : fs[f] = fsAtStart[f]

\* the generator has ended successfully after a successful run of the round
\* script, whose favicon variants are still there
C10_Witness ==
    /\ Successful /\ script = "gen" /\ lastOK.script = "round"
    /\ fs["assets/favicon-16x16.png"].alpha = "mask"
    /\ fs["assets/favicon.png"].alpha = "none"

\* a round run repeated on the same source
C10_RerunReached ==
    /\ Successful /\ script = "round" /\ lastOK.script = "round"
    /\ lastOK.src = fs[SrcPath]

\* whether the centre of pixel (x, y) lies strictly outside the circle
\* inscribed in the size x size square (centre (size/2, size/2), radius
\* size/2); coordinates doubled to stay in the integers
CentreOutside(size, x, y) ==
    (2 * x + 1 - size) * (2 * x + 1 - size)
        + (2 * y + 1 - size) * (2 * y + 1 - size) > size * size

\* C3: the alpha of every pixel of the image make_icon_round produces is the
\* value of create_round_mask(size) there, whatever alpha the source had; a
\* pixel strictly outside the inscribed circle has alpha 0; the centre pixel
\* has alpha 255.
C3_AlphaIsInscribedCircle ==
    (pstage = "out" /\ pkind = "icon") =>
        /\ outPix[4] = create_round_mask(psize, px, py)
        /\ outPix[4] \in {0, 255}
        /\ CentreOutside(psize, px, py) => outPix[4] = 0
        /\ (px = psize \div 2 /\ py = psize \div 2) => outPix[4] = 255

\* the part of C3 that holds: the alpha is the mask's and not the source's,
\* the colour is the pasted icon's, and the centre pixel is opaque
C3_AlphaIsMask ==
    (pstage = "out" /\ pkind = "icon") =>
        /\ outPix[4] = create_round_mask(psize, px, py)
        /\ outPix[4] \in {0, 255}
        /\ <<outPix[1], outPix[2], outPix[3]>> = <<srcPix[1], srcPix[2], srcPix[3]>>
        /\ (px = psize \div 2 /\ py = psize \div 2) => outPix[4] = 255

\* whether a shape drawn on the notification icon covers pixel (x, y)
ShapeCovers(kind, size, x, y) ==
    IF kind = "roundnotif"
    THEN CircleCovers(size, x, y) \/ BarCovers(size, x, y)
    ELSE BookCovers(size, x, y) \/ SpineCovers(size, x, y)

\* C9: in the notification icon of either script, a pixel that no drawn
\* shape covers has alpha 0, and no pixel is opaque black.
C9_NotificationTransparent ==
    (pstage = "out" /\ pkind \in {"roundnotif", "booknotif"}) =>
        /\ ~ShapeCovers(pkind, psize, px, py) => outPix[4] = 0
        /\ outPix # <<0, 0, 0, 255>>

\* the part of C9 that holds: the generator's notification icon
C9_BookTransparent ==
    (pstage = "out" /\ pkind = "booknotif") =>
        /\ ~ShapeCovers(pkind, psize, px, py) => outPix = Transparent
        /\ ShapeCovers(pkind, psize, px, py) => outPix = White

\* C5: every row y of the gradient is filled with the linear interpolation
\* between (0, 245, 255) and (10, 195, 155) at y/size, truncated; every
\* channel is within 0..255; from one row to the next r does not fall and g
\* and b do not rise; row 0 is (0, 245, 255).
C5_Gradient ==
    gy >= 1 =>
        LET y == gy - 1
            lerp(c0, c1) ==
                \* c0 + (c1 - c0) * y / 1024 lies in n .. n + 1 for n >= 0
                CHOOSE n \in 0..255 :
                    /\ n * 1024 <= c0 * 1024 + (c1 - c0) * y
                    /\ c0 * 1024 + (c1 - c0) * y < (n + 1) * 1024
        IN  /\ gcolor = <<lerp(0, 10), lerp(245, 195), lerp(255, 155)>>
            /\ \A c \in 1..3 : gcolor[c] \in 0..255
            /\ y = 0 => gcolor = <<0, 245, 255>>
            /\ y >= 1 => /\ gprev[1] <= gcolor[1]
                         /\ gprev[2] >= gcolor[2]
                         /\ gprev[3] >= gcolor[3]

\* the last row has been drawn, one step short of the end colour
C5_Witness ==
    gy = 1024 /\ gcolor = <<9, 195, 155>> /\ gprev = <<9, 195, 155>>

=============================================================================
